---- MODULE Spec2Model ----
(***************************************************************************)
(* Prevora surveillance dashboard: the live monitor (RealTimeMonitor), the  *)
(* notification feed (NotificationCenter) and the analytics page           *)
(* (AdvancedAnalytics) as state machines.                                  *)
(*                                                                         *)
(* React state cells are the variables.  A functional state update         *)
(* (setX(prev => f(prev))) is applied atomically to the latest value, so   *)
(* every handler is one action.  Timers (setInterval / setTimeout) are     *)
(* kept as explicit due times against the clock `now`.                     *)
(***************************************************************************)
EXTENDS Integers, Sequences, FiniteSets, TLC

VARIABLES
    \* ---- RealTimeMonitor ----
    isMonitoring,     \* useState(true)
    recentSignals,    \* useState<SignalUpdate[]>([])
    systemStatus,     \* useState<SystemStatus>
    stats,            \* useState({totalToday, highSeverity, activeEvents, ...})
    now,              \* the wall clock (Date.now()), in time units
    nextTick,         \* due time of the active setInterval, NoTimer if none
    timeouts,         \* pending setTimeout continuations: set of [id, due]
    liveLoads,        \* loadInitialData calls awaiting Promise.all
    loadsIssued,      \* history: number of loadInitialData calls so far
    lastTickAt,       \* history: the time of the last interval callback, NoTimer if none
    \* ---- NotificationCenter ----
    isOpen,           \* the isOpen prop
    notifications,    \* useState<Notification[]>([])
    filter,           \* useState('all')
    isLoading,        \* useState(true)
    notifLoads,       \* loadNotifications calls awaiting Promise.all
    lastMerged,       \* history: the merged, sorted list of the last merge, before .slice(0, 20)
    readIds,          \* history: the ids passed to mark-read since the last merge
    \* ---- AdvancedAnalytics ----
    analyticsData,    \* useState<AnalyticsData | null>(null)
    timeRange,        \* useState('7d')
    aLoading,         \* useState(true), the page's isLoading
    aLoads,           \* loadAnalyticsData calls awaiting Promise.all
    zone,             \* the browser's time zone
    lastInput,        \* history: what the last completed refresh was given
    failedFrom,       \* history: after a failed refresh, the state in which it was issued
    \* ---- all ----
    lastOp            \* history: the handler that ran last

liveVars == <<isMonitoring, recentSignals, systemStatus, stats, nextTick,
              timeouts, liveLoads, loadsIssued, lastTickAt>>

notifVars == <<isOpen, notifications, filter, isLoading, notifLoads, lastMerged, readIds>>

analyticsVars == <<analyticsData, timeRange, aLoading, aLoads, zone, lastInput, failedFrom>>

vars == <<liveVars, notifVars, analyticsVars, now, lastOp>>

----------------------------------------------------------------------------
(* Bounds of the model *)

MaxTime == 9       \* the clock stops here
MaxLate == 1       \* a timer callback runs at most this long after it is due
MaxSignals == 11   \* records a getSignals() answer holds at most
MaxEvents == 12    \* records a getEvents() answer holds at most
MaxAlerts == 12    \* records a getAlerts() answer holds at most
MaxInFlight == 2   \* loadNotifications calls in flight at once
MaxWait == 1       \* time units that pass while the notification panel is mounted
MaxLoads == 3      \* loadInitialData calls in one run
DayLen == 4        \* time units per calendar day
StartTime == 3     \* the clock at mount

(* Program constants *)

TickPeriod == 3    \* setInterval(..., 3000)
ClearDelay == 2    \* setTimeout(..., 2000)
RecentLimit == 10  \* .slice(0, 10)
PrevKeep == 9      \* prev.slice(0, 9)
LoadGaugeMax == 5  \* Math.floor(Math.random() * 5) + 1
TickGaugeMax == 8  \* Math.floor(Math.random() * 8) + 1
FeedLimit == 20    \* .slice(0, 20)
SystemNoticeAge == 7200   \* 2 * 60 * 60 * 1000 ms

NoTimer == -1

Severities == <<"low", "medium", "high">>

Locations == <<"Mumbai, Andheri", "Delhi, Central">>

----------------------------------------------------------------------------
(* Array helpers, as JavaScript computes them *)

Min(a, b) == IF a <= b THEN a ELSE b

\* Array.prototype.slice(0, n)
Slice0(s, n) == SubSeq(s, 1, Min(n, Len(s)))

\* Insert index i behind every index whose key is >= key[i].  With the
\* indices inserted in array order this is the stable descending sort that
\* Array.prototype.sort((a, b) => key(b) - key(a)) performs.
RECURSIVE InsertDesc(_, _, _)
InsertDesc(i, acc, key) ==
    IF acc = <<>> THEN <<i>>
    ELSE IF key[Head(acc)] >= key[i] THEN <<Head(acc)>> \o InsertDesc(i, Tail(acc), key)
         ELSE <<i>> \o acc

RECURSIVE SortedIndices(_, _, _)
SortedIndices(i, acc, key) ==
    IF i > Len(key) THEN acc
    ELSE SortedIndices(i + 1, InsertDesc(i, acc, key), key)

\* s sorted by descending key[i], the key of s[i]; ties keep array order
SortDesc(s, key) ==
    LET perm == SortedIndices(1, <<>>, key)
    IN [k \in 1..Len(s) |-> s[perm[k]]]

\* new Date().toISOString().split('T')[0]: the calendar day of an instant
DayOf(t) == t \div DayLen

----------------------------------------------------------------------------
(* RecordSource answers.  A call rejects ("throw"), resolves without data   *)
(* ("null", read as [] by `.data || []`) or resolves with records.          *)

Rejected == [kind |-> "throw", data |-> <<>>]
NoData == [kind |-> "null", data |-> <<>>]
Data(records) == [kind |-> "data", data |-> records]

\* record i of an answer; every record was created before the mount, and the
\* records come in no particular order of creation
SignalRecord(i) ==
    [id |-> <<"db", i>>,
     severity |-> Severities[(i % 3) + 1],
     created_at |-> i % (StartTime + 1)]

\* the answers of getSignals(): no record, or more than the buffer holds
SignalAnswers ==
    { Data([i \in 1..n |-> SignalRecord(i)]) : n \in {0, MaxSignals} }
        \cup {NoData, Rejected}

\* timestamps of stored alerts and events lie around the system notice's
FeedEpoch == StartTime - SystemNoticeAge

EventStatus(i) == IF i % 3 = 0 THEN "resolved" ELSE "active"

EventRecord(i) ==
    [id |-> i,
     title |-> <<"Event", i>>,
     location |-> Locations[(i % 2) + 1],
     severity |-> Severities[(i % 3) + 1],
     signal_count |-> i,
     status |-> EventStatus(i),
     created_at |-> FeedEpoch + (i % 4) - 1]

\* the answers of getEvents(): no record, or many
EventAnswers ==
    { Data([i \in 1..n |-> EventRecord(i)]) : n \in {0, MaxEvents} }
        \cup {NoData, Rejected}

AlertRecord(i) ==
    [id |-> i,
     title |-> <<"Alert", i>>,
     location |-> Locations[(i % 2) + 1],
     severity |-> Severities[((i + 1) % 3) + 1],
     issued_at |-> FeedEpoch + ((2 * i) % 5) - 2]

\* the answers of getAlerts(): no record, a few, or many
AlertAnswers ==
    { Data([i \in 1..n |-> AlertRecord(i)]) : n \in {0, 2, MaxAlerts} }
        \cup {NoData, Rejected}

\* Promise.all([getSignals(), getEvents()]): rejects when either call rejects
LiveFetches == [signals : SignalAnswers, events : EventAnswers]

\* result.data || []
DataOrEmpty(answer) == IF answer.kind = "data" THEN answer.data ELSE <<>>

\* Math.floor(Math.random() * n) + 1 ranges over 1..n; the model draws its
\* least and its greatest value
Gauge(n) == {1, n}

----------------------------------------------------------------------------
(* RealTimeMonitor *)

\* a Promise.all that rejects only when every one of its promises rejected
RejectsWhenAll(fetch) == \A f \in DOMAIN fetch : fetch[f].kind = "throw"

\* await Promise.all([...]) throws as soon as one of its promises rejected
Rejects(fetch) == \E f \in DOMAIN fetch : fetch[f].kind = "throw"

\* the calls of one Promise.all that rejected, in the order of the array
Rejections(fetch, calls) == SelectSeq(calls, LAMBDA f : fetch[f].kind = "throw")

\* a handler run: its name and the id it was about
Op(name, id) == [op |-> name, id |-> id, repeat |-> FALSE]

\* a mark-read run, which may repeat the run right before it
MarkOp(name, id) == [op |-> name, id |-> id, repeat |-> lastOp.op = name /\ lastOp.id = id]

CreatedAt(records) == [i \in 1..Len(records) |-> records[i].created_at]

\* RecentOf without the sort: the first 10 records as the answer lists them
RecentUnsorted(signals) ==
    LET first == Slice0(signals, RecentLimit)
    IN [i \in 1..Len(first) |->
          [id |-> first[i].id,
           severity |-> first[i].severity,
           timestamp |-> first[i].created_at]]

\* signals.sort(...).slice(0, 10).map(...): entries carry no isNew field
RecentOf(signals) ==
    LET sorted == Slice0(SortDesc(signals, CreatedAt(signals)), RecentLimit)
    IN [i \in 1..Len(sorted) |->
          [id |-> sorted[i].id,
           severity |-> sorted[i].severity,
           timestamp |-> sorted[i].created_at]]

\* signals.filter(s => s.created_at.startsWith(today)).length
TodayCount(signals, t) ==
    Cardinality({i \in 1..Len(signals) : DayOf(signals[i].created_at) = DayOf(t)})

HighCount(signals) ==
    Cardinality({i \in 1..Len(signals) : signals[i].severity = "high"})

ActiveCount(events) ==
    Cardinality({i \in 1..Len(events) : events[i].status = "active"})

StatsOf(signals, events, t) ==
    [totalToday |-> TodayCount(signals, t),
     highSeverity |-> HighCount(signals),
     activeEvents |-> ActiveCount(events),
     avgResponseTime |-> "2.3s"]

\* Prepend without the slice: nothing is evicted
PrependNoEvict(newSignal, prev) == <<newSignal>> \o prev

\* Prepend to a buffer read before the other updates: their entries are lost
PrependDropping(newSignal, prev) == <<newSignal>>

\* [newSignal, ...prev.slice(0, 9)]
Prepend(newSignal, prev) == <<newSignal>> \o Slice0(prev, PrevKeep)

\* ClearFlag with the comparison inverted (!== for ===)
ClearFlagInverted(prev, id) ==
    [i \in 1..Len(prev) |->
        IF prev[i].id # id
        THEN [f \in DOMAIN prev[i] \cup {"isNew"} |->
                 IF f = "isNew" THEN FALSE ELSE prev[i][f]]
        ELSE prev[i]]

\* prev.map(signal => signal.id === id ? { ...signal, isNew: false } : signal)
ClearFlag(prev, id) ==
    [i \in 1..Len(prev) |->
        IF prev[i].id = id
        THEN [f \in DOMAIN prev[i] \cup {"isNew"} |->
                 IF f = "isNew" THEN FALSE ELSE prev[i][f]]
        ELSE prev[i]]

\* signal.isNew, read as a condition: an absent field is falsy
IsNew(signal) == "isNew" \in DOMAIN signal /\ signal.isNew

\* the timers that are pending, by due time: a timer callback runs only when
\* no other timer has been due for longer
DueTimes == {t.due : t \in timeouts} \cup (IF nextTick = NoTimer THEN {} ELSE {nextTick})

MayRun(due) == due <= now /\ \A d \in DueTimes : due <= d

\* NotificationCenter before it is opened
NotifMounted ==
    /\ isOpen = FALSE
    /\ notifications = <<>>
    /\ filter = "all"
    /\ isLoading = TRUE
    /\ notifLoads = 0
    /\ lastMerged = <<>>
    /\ readIds = {}

\* AdvancedAnalytics before the page is shown
AnalyticsIdle ==
    /\ analyticsData = [kind |-> "null"]
    /\ timeRange = "7d"
    /\ aLoading = TRUE
    /\ aLoads = <<>>
    /\ zone = [std |-> 0, changeAt |-> 0, delta |-> 0]
    /\ lastInput = [kind |-> "none"]
    /\ failedFrom = [kind |-> "none"]

\* useEffect(..., [isMonitoring]), first run after mount
LiveInit ==
    /\ NotifMounted
    /\ AnalyticsIdle
    /\ isMonitoring = TRUE
    /\ recentSignals = <<>>
    /\ systemStatus = [isConnected |-> TRUE, lastUpdate |-> StartTime,
                       signalsPerMinute |-> 0, systemHealth |-> "healthy"]
    /\ stats = [totalToday |-> 0, highSeverity |-> 0, activeEvents |-> 0,
                avgResponseTime |-> "2.3s"]
    /\ now = StartTime
    /\ nextTick = StartTime + TickPeriod
    /\ timeouts = {}
    /\ liveLoads = 1
    /\ loadsIssued = 1
    /\ lastTickAt = NoTimer
    /\ lastOp = [op |-> "mount", id |-> <<>>, repeat |-> FALSE]

\* a try branch that also marks the monitor connected again
LoadSucceedsReconnecting(fetch, gauge) ==
    LET signals == DataOrEmpty(fetch.signals)
        events == DataOrEmpty(fetch.events)
    IN /\ recentSignals' = RecentOf(signals)
       /\ stats' = StatsOf(signals, events, now)
       /\ systemStatus' = [systemStatus EXCEPT !.lastUpdate = now,
                                               !.signalsPerMinute = gauge,
                                               !.isConnected = TRUE,
                                               !.systemHealth = "healthy"]
       /\ lastOp' = Op("load", Rejections(fetch, <<"signals", "events">>))

\* loadInitialData, from the await on: the try branch
LoadSucceeds(fetch, gauge) ==
    LET signals == DataOrEmpty(fetch.signals)
        events == DataOrEmpty(fetch.events)
    IN /\ recentSignals' = RecentOf(signals)
       /\ stats' = StatsOf(signals, events, now)
       /\ systemStatus' = [systemStatus EXCEPT !.lastUpdate = now,
                                               !.signalsPerMinute = gauge]
       /\ lastOp' = Op("load", Rejections(fetch, <<"signals", "events">>))

\* a catch branch that also empties the buffer and the stats
LoadFailsClearing(fetch) ==
    /\ systemStatus' = [systemStatus EXCEPT !.isConnected = FALSE,
                                            !.systemHealth = "critical"]
    /\ lastOp' = Op("loadFailed", Rejections(fetch, <<"signals", "events">>))
    /\ recentSignals' = <<>>
    /\ stats' = [stats EXCEPT !.totalToday = 0, !.highSeverity = 0, !.activeEvents = 0]

\* loadInitialData, from the await on: the catch branch
LoadFails(fetch) ==
    /\ systemStatus' = [systemStatus EXCEPT !.isConnected = FALSE,
                                            !.systemHealth = "critical"]
    /\ lastOp' = Op("loadFailed", Rejections(fetch, <<"signals", "events">>))
    /\ UNCHANGED <<recentSignals, stats>>

LoadDone ==
    /\ liveLoads > 0
    /\ liveLoads' = liveLoads - 1
    /\ \E fetch \in LiveFetches, gauge \in Gauge(LoadGaugeMax) :
          IF Rejects(fetch)
          THEN LoadFails(fetch)
          ELSE LoadSucceeds(fetch, gauge)
    /\ UNCHANGED <<isMonitoring, now, nextTick, timeouts, loadsIssued, lastTickAt, notifVars, analyticsVars>>

\* setInterval whose first callback is not delayed by a period
IntervalImmediate(monitoring) == IF monitoring THEN now ELSE NoTimer

\* the effect without its cleanup: the interval keeps running when paused
IntervalKept(monitoring) == IF monitoring THEN now + TickPeriod ELSE nextTick

\* the interval the effect leaves behind: clearInterval by the cleanup, then
\* setInterval when monitoring is on
IntervalAfter(monitoring) == IF monitoring THEN now + TickPeriod ELSE NoTimer

\* onClick={() => setIsMonitoring(!isMonitoring)}, with the effect it triggers
Toggle ==
    /\ loadsIssued < MaxLoads
    /\ isMonitoring' = ~isMonitoring
    /\ nextTick' = IntervalAfter(isMonitoring')
    /\ liveLoads' = liveLoads + 1
    /\ loadsIssued' = loadsIssued + 1
    /\ lastOp' = Op("toggle", <<>>)
    /\ UNCHANGED <<recentSignals, systemStatus, stats, now, timeouts, lastTickAt, notifVars, analyticsVars>>

NewSignal(severity) ==
    [id |-> <<"signal", now>>, severity |-> severity, timestamp |-> now, isNew |-> TRUE]

\* StatsAfter that counts every new signal as a high one
StatsAfterAllHigh(prev, newSignal) ==
    [prev EXCEPT !.totalToday = prev.totalToday + 1,
                 !.highSeverity = prev.highSeverity + 1]

\* setStats(prev => ({...prev, totalToday: ..., highSeverity: ...}))
StatsAfter(prev, newSignal) ==
    [prev EXCEPT !.totalToday = prev.totalToday + 1,
                 !.highSeverity = IF newSignal.severity = "high"
                                  THEN prev.highSeverity + 1
                                  ELSE prev.highSeverity]

\* Synthesize with setTimeout(..., 0): the flag is cleared without delay
SynthesizeNoDelay(severity) ==
    LET newSignal == NewSignal(severity)
    IN /\ recentSignals' = Prepend(newSignal, recentSignals)
       /\ stats' = StatsAfter(stats, newSignal)
       /\ timeouts' = timeouts \cup {[id |-> newSignal.id, due |-> now]}
       /\ lastOp' = Op("tick", newSignal.id)

\* simulateRealTimeUpdate, the branch Math.random() > 0.7
Synthesize(severity) ==
    LET newSignal == NewSignal(severity)
    IN /\ recentSignals' = Prepend(newSignal, recentSignals)
       /\ stats' = StatsAfter(stats, newSignal)
       /\ timeouts' = timeouts \cup {[id |-> newSignal.id, due |-> now + ClearDelay]}
       /\ lastOp' = Op("tick", newSignal.id)

\* the interval callback: simulateRealTimeUpdate
Tick ==
    /\ nextTick # NoTimer
    /\ MayRun(nextTick)
    /\ nextTick' = now + TickPeriod
    /\ \/ \E severity \in {"low", "medium", "high"} : Synthesize(severity)
       \/ /\ lastOp' = Op("tick", <<>>)
          /\ UNCHANGED <<recentSignals, stats, timeouts>>
    /\ \E gauge \in Gauge(TickGaugeMax), health \in {"warning", "healthy"} :
          systemStatus' = [systemStatus EXCEPT !.lastUpdate = now,
                                               !.signalsPerMinute = gauge,
                                               !.systemHealth = health]
    /\ lastTickAt' = now
    /\ UNCHANGED <<isMonitoring, now, liveLoads, loadsIssued, notifVars, analyticsVars>>

\* the setTimeout callback of one synthesized entry
ClearNew ==
    \E t \in timeouts :
        /\ MayRun(t.due)
        /\ timeouts' = timeouts \ {t}
        /\ recentSignals' = ClearFlag(recentSignals, t.id)
        /\ lastOp' = Op("clear", t.id)
        /\ UNCHANGED <<isMonitoring, systemStatus, stats, now, nextTick,
                       liveLoads, loadsIssued, lastTickAt, notifVars, analyticsVars>>

\* time passes; no timer callback is held back longer than MaxLate
Advance ==
    /\ now < MaxTime
    /\ \A d \in DueTimes : now + 1 <= d + MaxLate
    /\ now' = now + 1
    /\ lastOp' = Op("advance", <<>>)
    /\ UNCHANGED <<liveVars, notifVars, analyticsVars>>

LiveNext == LoadDone \/ Toggle \/ Tick \/ ClearNew \/ Advance

SpecLive == LiveInit /\ [][LiveNext]_vars

----------------------------------------------------------------------------
(* NotificationCenter *)

\* (alertsResult.data || []).map(alert => ({...}))
AlertNotification(alert) ==
    [id |-> <<"alert", alert.id>>,
     type |-> "alert",
     title |-> alert.title,
     message |-> <<"Health alert issued for ", alert.location>>,
     severity |-> alert.severity,
     timestamp |-> alert.issued_at,
     read |-> FALSE,
     actionUrl |-> <<"/alerts">>]

\* .map(event => ({...}))
EventNotification(event) ==
    [id |-> <<"event", event.id>>,
     type |-> "event",
     title |-> event.title,
     message |-> <<event.signal_count, " signals detected in ", event.location>>,
     severity |-> event.severity,
     timestamp |-> event.created_at,
     read |-> FALSE,
     actionUrl |-> <<"/event/", event.id>>]

\* the one system notice, two hours old; it has no actionUrl
SystemNotifications(t) ==
    << [id |-> <<"system", 1>>,
        type |-> "system",
        title |-> <<"AI Model Updated">>,
        message |-> <<"Detection algorithms have been improved for better accuracy">>,
        severity |-> "low",
        timestamp |-> t - SystemNoticeAge,
        read |-> FALSE] >>

\* the indices from i on of all events: the .filter(...) is missing
AllIndices(events, i) == [k \in 1..(Len(events) + 1 - i) |-> i + k - 1]

\* the indices of the events with status === 'active', in array order
RECURSIVE ActiveIndices(_, _)
ActiveIndices(events, i) ==
    IF i > Len(events) THEN <<>>
    ELSE IF events[i].status = "active" THEN <<i>> \o ActiveIndices(events, i + 1)
         ELSE ActiveIndices(events, i + 1)

\* [...alertNotifications, ...eventNotifications, ...systemNotifications]
Candidates(alerts, events, t) ==
    LET active == ActiveIndices(events, 1)
    IN [i \in 1..Len(alerts) |-> AlertNotification(alerts[i])]
       \o [k \in 1..Len(active) |-> EventNotification(events[active[k]])]
       \o SystemNotifications(t)

Timestamps(list) == [i \in 1..Len(list) |-> list[i].timestamp]

\* Candidates left in merge order: the .sort(...) is missing
MergedUnsorted(alerts, events, t) == Candidates(alerts, events, t)

\* .sort((a, b) => new Date(b.timestamp).getTime() - new Date(a.timestamp).getTime())
Merged(alerts, events, t) ==
    LET all == Candidates(alerts, events, t)
    IN SortDesc(all, Timestamps(all))

\* notifications.filter(n => !n.read).length, counted over the filtered list
UnreadOfFiltered(list) ==
    Cardinality({i \in 1..Len(list) :
        /\ ~list[i].read
        /\ filter = "high" => list[i].severity = "high"})

\* notifications.filter(n => !n.read).length
UnreadCount(list) == Cardinality({i \in 1..Len(list) : ~list[i].read})

\* prev.map(notif => ({ ...notif, read: true })) applied to every id alike
MarkEveryOne(prev, id) == [i \in 1..Len(prev) |-> [prev[i] EXCEPT !.read = TRUE]]

\* prev.map(notif => notif.id === id ? { ...notif, read: true } : notif)
markAsRead(prev, id) ==
    [i \in 1..Len(prev) |->
        IF prev[i].id = id THEN [prev[i] EXCEPT !.read = TRUE] ELSE prev[i]]

\* a "mark all" that flips the flag instead of setting it
FlipAllRead(prev) == [i \in 1..Len(prev) |-> [prev[i] EXCEPT !.read = ~prev[i].read]]

\* prev.map(notif => ({ ...notif, read: true }))
markAllAsRead(prev) == [i \in 1..Len(prev) |-> [prev[i] EXCEPT !.read = TRUE]]

\* the ids the mark-read handler is called with: the id of an alert, the id of
\* the system notice, and an id no notification has
MarkIds == {<<"alert", 1>>, <<"system", 1>>, <<"alert", 0>>}

NotifInit ==
    /\ NotifMounted
    /\ AnalyticsIdle
    /\ isMonitoring = FALSE
    /\ recentSignals = <<>>
    /\ systemStatus = [isConnected |-> TRUE, lastUpdate |-> StartTime,
                       signalsPerMinute |-> 0, systemHealth |-> "healthy"]
    /\ stats = [totalToday |-> 0, highSeverity |-> 0, activeEvents |-> 0,
                avgResponseTime |-> "2.3s"]
    /\ now = StartTime
    /\ nextTick = NoTimer
    /\ timeouts = {}
    /\ liveLoads = 0
    /\ loadsIssued = 0
    /\ lastTickAt = NoTimer
    /\ lastOp = [op |-> "mount", id |-> <<>>, repeat |-> FALSE]

\* loadNotifications, up to the await
StartLoad ==
    /\ notifLoads < MaxInFlight
    /\ isLoading' = TRUE
    /\ notifLoads' = notifLoads + 1

\* the parent opens the panel: useEffect(..., [isOpen]) calls loadNotifications
Open ==
    /\ ~isOpen
    /\ isOpen' = TRUE
    /\ StartLoad
    /\ lastOp' = Op("view", <<>>)
    /\ UNCHANGED <<notifications, filter, lastMerged, readIds, liveVars, analyticsVars, now>>

\* onClick={onClose}
Close ==
    /\ isOpen
    /\ isOpen' = FALSE
    /\ lastOp' = Op("view", <<>>)
    /\ UNCHANGED <<notifications, filter, isLoading, notifLoads, lastMerged, readIds,
                   liveVars, analyticsVars, now>>

\* onClick={loadNotifications}
Refresh ==
    /\ isOpen
    /\ StartLoad
    /\ lastOp' = Op("view", <<>>)
    /\ UNCHANGED <<isOpen, notifications, filter, lastMerged, readIds, liveVars, analyticsVars, now>>

\* Promise.all([getAlerts(), getEvents()])
NotifFetches == [alerts : AlertAnswers, events : EventAnswers]

\* loadNotifications, from the await on: the try branch, the catch branch,
\* and the finally
NotifLoadDone ==
    /\ notifLoads > 0
    /\ notifLoads' = notifLoads - 1
    /\ isLoading' = FALSE
    /\ \E fetch \in NotifFetches :
          IF Rejects(fetch)
          THEN /\ lastOp' = Op("mergeFailed", Rejections(fetch, <<"alerts", "events">>))
               /\ UNCHANGED <<notifications, lastMerged, readIds>>
          ELSE LET all == Merged(DataOrEmpty(fetch.alerts), DataOrEmpty(fetch.events), now)
               IN /\ notifications' = Slice0(all, FeedLimit)
                  /\ lastMerged' = all
                  /\ readIds' = {}
                  /\ lastOp' = Op("merge", Rejections(fetch, <<"alerts", "events">>))
    /\ UNCHANGED <<isOpen, filter, liveVars, analyticsVars, now>>

\* markAsRead(notification.id)
MarkAsRead ==
    /\ isOpen
    /\ \E id \in MarkIds :
          /\ notifications' = markAsRead(notifications, id)
          /\ readIds' = readIds \cup {id}
          /\ lastOp' = MarkOp("mark", id)
    /\ UNCHANGED <<isOpen, filter, isLoading, notifLoads, lastMerged, liveVars, analyticsVars, now>>

\* onClick={markAllAsRead}
MarkAllAsRead ==
    /\ isOpen
    /\ notifications' = markAllAsRead(notifications)
    /\ readIds' = readIds \cup {notifications[i].id : i \in 1..Len(notifications)}
    /\ lastOp' = MarkOp("markAll", <<>>)
    /\ UNCHANGED <<isOpen, filter, isLoading, notifLoads, lastMerged, liveVars, analyticsVars, now>>

\* onChange={(e) => setFilter(e.target.value as any)}
SetFilter ==
    /\ isOpen
    /\ \E f \in {"all", "unread", "high"} :
          /\ f # filter
          /\ filter' = f
    /\ lastOp' = Op("view", <<>>)
    /\ UNCHANGED <<isOpen, notifications, isLoading, notifLoads, lastMerged, readIds,
                   liveVars, analyticsVars, now>>

\* time passes while the panel is mounted
Wait ==
    /\ now < StartTime + MaxWait
    /\ now' = now + 1
    /\ lastOp' = Op("view", <<>>)
    /\ UNCHANGED <<liveVars, notifVars, analyticsVars>>

NotifNext ==
    \/ Open \/ Close \/ Refresh \/ NotifLoadDone
    \/ MarkAsRead \/ MarkAllAsRead \/ SetFilter \/ Wait

SpecNotif == NotifInit /\ [][NotifNext]_vars

----------------------------------------------------------------------------
(* AdvancedAnalytics.  In this part the clock counts hours; an instant is   *)
(* a number of hours in UTC, and a calendar day is HoursPerDay of them.     *)
(* A refresh reads the clock when its answers arrive; the page is followed  *)
(* within one hour of the clock.                                            *)

HoursPerDay == 24    \* Array(24).fill(0)
HotspotLimit == 10   \* .slice(0, 10)

FewSignals == 3           \* records of the small getSignals() answer
TimezoneShift == 5        \* hours the browser's standard time is ahead of UTC
ClockChangeAgo == 50      \* hours before hour 0 at which the daylight-saving zone put its clocks forward

\* the <option> values of the time-range <select>
TimeRanges == {"1d", "7d", "30d"}

\* a zone: its offset is fixed (delta = 0), or its clocks went forward by one
\* hour at changeAt
Zone(d) == [std |-> TimezoneShift, changeAt |-> -ClockChangeAgo, delta |-> d]

\* the hours local time is ahead of UTC at instant t
Offset(z, t) == z.std + (IF t >= z.changeAt THEN z.delta ELSE 0)

\* the local wall-clock reading of instant t
ToLocal(z, t) == t + Offset(z, t)

\* the instant of a local wall-clock reading; a reading the clock change
\* skipped is read with the offset before the change
FromLocal(z, l) ==
    IF l - z.std - z.delta >= z.changeAt THEN l - z.std - z.delta ELSE l - z.std

\* date.toISOString().split('T')[0], and the date a created_at string starts with
UtcDay(t) == t \div HoursPerDay

\* new Date(created_at).getHours()
getHours(z, t) == ToLocal(z, t) % HoursPerDay

\* date.setDate(date.getDate() - i): the same local time of day, i days earlier
DaysBefore(z, t, i) == FromLocal(z, ToLocal(z, t) - i * HoursPerDay)

(* Numbers.  A JavaScript number is kept as the fraction num/den, or as one  *)
(* of the values a division by zero gives.                                   *)

Num(n, d) == [kind |-> "num", num |-> n, den |-> d]
NotANumber == [kind |-> "nan", num |-> 0, den |-> 0]
Infinite == [kind |-> "inf", num |-> 1, den |-> 0]

\* a / b for integers a >= 0, b >= 0
Divide(a, b) ==
    IF b # 0 THEN Num(a, b) ELSE IF a = 0 THEN NotANumber ELSE Infinite

\* x * k for an integer k > 0
Times(x, k) == IF x.kind = "num" THEN Num(x.num * k, x.den) ELSE x

\* Math.min(c, x) for an integer c
MathMin(c, x) ==
    IF x.kind = "nan" THEN x
    ELSE IF x.kind = "inf" \/ x.num > c * x.den THEN Num(c, 1)
    ELSE x

\* Math.round(x): the integer nearest to x, halves upwards
MathRound(x) ==
    IF x.kind = "num" THEN Num((2 * x.num + x.den) \div (2 * x.den), 1) ELSE x

\* Math.max(...s) of a non-empty array of integers
MathMax(s) == CHOOSE m \in {s[k] : k \in 1..Len(s)} : \A k \in 1..Len(s) : s[k] <= m

(* The stored signals.  Signal k lies (3 * k) % 35 days back, so that some   *)
(* signals are older than every window, at every hour of the day.           *)

SignalTypes == <<"fever", "respiratory", "gastrointestinal", "skin">>

Regions == <<"Mumbai", "Delhi", "Pune", "Chennai", "Kolkata", "Jaipur",
             "Lucknow", "Patna", "Bhopal", "Surat", "Nagpur">>

\* the second segment of a location
Districts == <<"North", "South">>

\* HotCounts[g] signals lie in Regions[g]
HotCounts == <<1, 5, 11, 1, 6, 10, 1, 1, 1, 1, 1>>

\* the signals are stored in rounds: round r holds one signal of every region
\* with at least r signals, in the order of Regions
Slots == {s \in (1..MathMax(HotCounts)) \X (1..Len(HotCounts)) : HotCounts[s[2]] >= s[1]}

\* the place of slot s in stored order
Position(s) ==
    Cardinality({u \in Slots : u[1] < s[1] \/ (u[1] = s[1] /\ u[2] <= s[2])})

AnalyticsSignal(k, g) ==
    [id |-> k,
     type |-> SignalTypes[IF k % 7 = 0 THEN 4 ELSE (k % 3) + 1],
     location |-> <<Regions[g], Districts[(k % 2) + 1]>>,
     severity |-> Severities[(k % 3) + 1],
     created_at |-> ((7 * k) % HoursPerDay) - ((3 * k) % 35) * HoursPerDay]

StoredSignals ==
    [k \in 1..Cardinality(Slots) |->
       AnalyticsSignal(k, (CHOOSE s \in Slots : Position(s) = k)[2])]

\* the answers of getSignals(): no record, a few, or all that are stored
AnalyticsSignalAnswers ==
    { Data(SubSeq(StoredSignals, 1, n)) : n \in {0, FewSignals, Len(StoredSignals)} }
        \cup {NoData, Rejected}

\* the answers of getEvents(): no record, or many
AnalyticsEventAnswers ==
    { Data([i \in 1..n |-> EventRecord(i)]) : n \in {0, 2 * MaxEvents} }
        \cup {NoData, Rejected}

\* Promise.all([getSignals(), getEvents()])
AnalyticsFetches == [signals : AnalyticsSignalAnswers, events : AnalyticsEventAnswers]

\* Math.random() * 0.3 + 0.1, in thousandths: the least and the greatest draw
AnomalyScores == {100, 399}

(* The derived views *)

\* range === '7d' ? 7 : range === '30d' ? 30 : 1
DaysOf(range) == IF range = "7d" THEN 7 ELSE IF range = "30d" THEN 30 ELSE 1

\* signals.filter(s => s.severity === level).length, over the signals at `among`
SeverityCount(signals, among, level) ==
    Cardinality({j \in among : signals[j].severity = level})

generateSignalTrends(signals, range, z, t, anomaly) ==
    LET days == DaysOf(range)
    IN [k \in 1..days |->
          LET date == DaysBefore(z, t, days - k)
              dateStr == UtcDay(date)
              daySignals == {j \in 1..Len(signals) : UtcDay(signals[j].created_at) = dateStr}
          IN [date |-> UtcDay(ToLocal(z, date)),
              signals |-> Cardinality(daySignals),
              high |-> SeverityCount(signals, daySignals, "high"),
              medium |-> SeverityCount(signals, daySignals, "medium"),
              low |-> SeverityCount(signals, daySignals, "low"),
              anomaly |-> anomaly]]

severityDistribution(signals) ==
    LET all == 1..Len(signals)
    IN << [severity |-> "High", count |-> SeverityCount(signals, all, "high"), color |-> "#ef4444"],
          [severity |-> "Medium", count |-> SeverityCount(signals, all, "medium"), color |-> "#f59e0b"],
          [severity |-> "Low", count |-> SeverityCount(signals, all, "low"), color |-> "#10b981"] >>

\* counts[key] = (counts[key] || 0) + 1 over ks, as Object.entries(counts)
\* lists it: the distinct keys in the order of their first occurrence
CountBy(ks) ==
    LET first == {i \in 1..Len(ks) : \A j \in 1..(i - 1) : ks[j] # ks[i]}
        keys == [n \in 1..Cardinality(first) |->
                   ks[CHOOSE i \in first : Cardinality({f \in first : f <= i}) = n]]
    IN [n \in 1..Len(keys) |->
          [key |-> keys[n], count |-> Cardinality({i \in 1..Len(ks) : ks[i] = keys[n]})]]

\* locationCounts keyed by the whole location string
CountsByFullLocation(signals) == CountBy([i \in 1..Len(signals) |-> signals[i].location])

\* signal.location.split(',')[0]
locationCounts(signals) == CountBy([i \in 1..Len(signals) |-> Head(signals[i].location)])

Risk(count) == IF count > 10 THEN "high" ELSE IF count > 5 THEN "medium" ELSE "low"

Counts(entries) == [j \in 1..Len(entries) |-> entries[j].count]

HotspotsUnsorted(signals) ==
    LET counts == locationCounts(signals)
        mapped == [j \in 1..Len(counts) |->
                     [location |-> counts[j].key, count |-> counts[j].count,
                      risk |-> Risk(counts[j].count)]]
    IN Slice0(mapped, HotspotLimit)

locationHotspots(signals) ==
    LET counts == locationCounts(signals)
        mapped == [j \in 1..Len(counts) |->
                     [location |-> counts[j].key, count |-> counts[j].count,
                      risk |-> Risk(counts[j].count)]]
    IN Slice0(SortDesc(mapped, Counts(mapped)), HotspotLimit)

typeCounts(signals) == CountBy([i \in 1..Len(signals) |-> signals[i].type])

BreakdownTruncating(signals) ==
    LET counts == typeCounts(signals)
        mapped == [j \in 1..Len(counts) |->
                     [type |-> counts[j].key, count |-> counts[j].count,
                      percentage |-> Num((counts[j].count * 100) \div Len(signals), 1)]]
    IN SortDesc(mapped, Counts(mapped))

typeBreakdown(signals) ==
    LET counts == typeCounts(signals)
        mapped == [j \in 1..Len(counts) |->
                     [type |-> counts[j].key, count |-> counts[j].count,
                      percentage |-> MathRound(Times(Divide(counts[j].count, Len(signals)), 100))]]
    IN SortDesc(mapped, Counts(mapped))

PatternsByFirstHour(signals, z) ==
    LET hourCounts == [k \in 1..HoursPerDay |->
                         Cardinality({i \in 1..Len(signals) :
                                        getHours(z, signals[i].created_at) = k - 1})]
    IN [k \in 1..HoursPerDay |->
          [hour |-> k - 1,
           signals |-> hourCounts[k],
           normalized |-> Times(Divide(hourCounts[k], hourCounts[1]), 100)]]

\* entry k stands for hour k - 1
generateTimePatterns(signals, z) ==
    LET hourCounts == [k \in 1..HoursPerDay |->
                         Cardinality({i \in 1..Len(signals) :
                                        getHours(z, signals[i].created_at) = k - 1})]
        max == MathMax(hourCounts)
    IN [k \in 1..HoursPerDay |->
          [hour |-> k - 1,
           signals |-> hourCounts[k],
           normalized |-> Times(Divide(hourCounts[k], max), 100)]]

riskAssessment(signals, events) ==
    << [factor |-> "Signal Volume",
        value |-> MathMin(100, Times(Divide(Len(signals), 100), 100))],
       [factor |-> "Severity Level",
        value |-> Times(Divide(severityDistribution(signals)[1].count, Len(signals)), 100)],
       [factor |-> "Geographic Spread",
        value |-> MathMin(100, Num(Len(locationCounts(signals)) * 10, 1))],
       [factor |-> "Event Frequency",
        value |-> MathMin(100, Num(Len(events) * 5, 1))],
       [factor |-> "Response Time", value |-> Num(85, 1)],
       [factor |-> "Community Engagement", value |-> Num(70, 1)] >>

NoAnalytics == [kind |-> "null"]

\* the argument of setAnalyticsData
Analyze(signals, events, range, z, t, anomaly) ==
    [kind |-> "data",
     signalTrends |-> generateSignalTrends(signals, range, z, t, anomaly),
     severityDistribution |-> severityDistribution(signals),
     locationHotspots |-> locationHotspots(signals),
     typeBreakdown |-> typeBreakdown(signals),
     timePatterns |-> generateTimePatterns(signals, z),
     riskAssessment |-> riskAssessment(signals, events)]

(* The page *)

\* where and when the page is shown: early in the day in a zone with a fixed
\* offset, or in the last hour of the day (UTC) in a zone whose clocks changed
\* two days before
Browsers == { [zone |-> Zone(0), at |-> StartTime],
              [zone |-> Zone(1), at |-> HoursPerDay - 1] }

\* useEffect(..., [timeRange]), first run after mount
AnalyticsInit ==
    /\ NotifMounted
    /\ isMonitoring = FALSE
    /\ recentSignals = <<>>
    /\ systemStatus = [isConnected |-> TRUE, lastUpdate |-> StartTime,
                       signalsPerMinute |-> 0, systemHealth |-> "healthy"]
    /\ stats = [totalToday |-> 0, highSeverity |-> 0, activeEvents |-> 0,
                avgResponseTime |-> "2.3s"]
    /\ nextTick = NoTimer
    /\ timeouts = {}
    /\ liveLoads = 0
    /\ loadsIssued = 0
    /\ lastTickAt = NoTimer
    /\ \E b \in Browsers : now = b.at /\ zone = b.zone
    /\ analyticsData = NoAnalytics
    /\ timeRange = "7d"
    /\ aLoading = TRUE
    /\ aLoads = << [range |-> "7d", before |-> [data |-> NoAnalytics, loading |-> TRUE]] >>
    /\ lastInput = [kind |-> "none"]
    /\ failedFrom = [kind |-> "none"]
    /\ lastOp = [op |-> "mount", id |-> <<>>, repeat |-> FALSE]

\* loadAnalyticsData, up to the await; the call keeps the timeRange of the
\* render it was made in, and (history) the state it was made in
IssueLoad(range) ==
    /\ aLoading' = TRUE
    /\ aLoads' = Append(aLoads, [range |-> range,
                                 before |-> [data |-> analyticsData, loading |-> aLoading]])

\* onChange={(e) => setTimeRange(e.target.value)}, then useEffect [timeRange];
\* the <select> is rendered only while isLoading is false
SetTimeRange ==
    /\ ~aLoading
    /\ \E r \in TimeRanges :
          /\ r # timeRange
          /\ timeRange' = r
          /\ IssueLoad(r)
    /\ failedFrom' = [kind |-> "none"]
    /\ lastOp' = Op("setTimeRange", <<>>)
    /\ UNCHANGED <<analyticsData, zone, lastInput, liveVars, notifVars, now>>

\* onClick={loadAnalyticsData}; the button is rendered only while isLoading is false
RefreshAnalytics ==
    /\ ~aLoading
    /\ IssueLoad(timeRange)
    /\ failedFrom' = [kind |-> "none"]
    /\ lastOp' = Op("refresh", <<>>)
    /\ UNCHANGED <<analyticsData, timeRange, zone, lastInput, liveVars, notifVars, now>>

\* loadAnalyticsData, from the await on: the try branch
AnalyticsSucceeds(fetch, load, anomaly) ==
    LET signals == DataOrEmpty(fetch.signals)
        events == DataOrEmpty(fetch.events)
    IN /\ analyticsData' = Analyze(signals, events, load.range, zone, now, anomaly)
       /\ lastInput' = [kind |-> "input", signals |-> signals, events |-> events,
                        range |-> load.range, at |-> now]
       /\ failedFrom' = [kind |-> "none"]
       /\ lastOp' = Op("refreshed", Rejections(fetch, <<"signals", "events">>))

AnalyticsFailsClearing(fetch, load) ==
    /\ analyticsData' = NoAnalytics
    /\ UNCHANGED lastInput
    /\ failedFrom' = [kind |-> "state", data |-> load.before.data,
                      loading |-> load.before.loading]
    /\ lastOp' = Op("refreshFailed", Rejections(fetch, <<"signals", "events">>))

\* the catch branch: console.error only
AnalyticsFails(fetch, load) ==
    /\ UNCHANGED <<analyticsData, lastInput>>
    /\ failedFrom' = [kind |-> "state", data |-> load.before.data,
                      loading |-> load.before.loading]
    /\ lastOp' = Op("refreshFailed", Rejections(fetch, <<"signals", "events">>))

\* loadAnalyticsData, from the await on; finally: setIsLoading(false)
AnalyticsLoadDone ==
    /\ aLoads # <<>>
    /\ \E fetch \in AnalyticsFetches, anomaly \in AnomalyScores :
          IF Rejects(fetch)
          THEN AnalyticsFails(fetch, Head(aLoads))
          ELSE AnalyticsSucceeds(fetch, Head(aLoads), anomaly)
    /\ aLoads' = Tail(aLoads)
    /\ aLoading' = FALSE
    /\ UNCHANGED <<timeRange, zone, liveVars, notifVars, now>>

AnalyticsNext == SetTimeRange \/ RefreshAnalytics \/ AnalyticsLoadDone

SpecAnalytics == AnalyticsInit /\ [][AnalyticsNext]_vars

----------------------------------------------------------------------------
(* The three components side by side: a run follows one of them from its    *)
(* mount; the other two stay as they are before they are shown.             *)

\* the monitor is mounted: its effect has called loadInitialData
MonitorShown == loadsIssued > 0

\* the analytics page is mounted: it has a browser time zone
AnalyticsShown == zone.std # 0

\* neither: the run follows the notification panel
PanelFollowed == ~MonitorShown /\ ~AnalyticsShown

PagesInit == LiveInit \/ NotifInit \/ AnalyticsInit

PagesNext ==
    \/ MonitorShown /\ LiveNext
    \/ PanelFollowed /\ NotifNext
    \/ AnalyticsShown /\ AnalyticsNext

SpecPages == PagesInit /\ [][PagesNext]_vars

----------------------------------------------------------------------------
(* Properties of the live monitor *)

Ids(buffer) == [i \in 1..Len(buffer) |-> buffer[i].id]

Present(id, buffer) == \E i \in 1..Len(buffer) : buffer[i].id = id

Synthesized(step) == step.op = "tick" /\ step.id # <<>>

\* C1: in every reachable state the recency buffer holds at most 10 entries.
C1_BufferAtMostTen == Len(recentSignals) <= 10

\* a tick has prepended to a full buffer of loaded entries: the last of them
\* was evicted and the buffer again holds 10
C1_Witness ==
    /\ Synthesized(lastOp)
    /\ Len(recentSignals) = 10
    /\ recentSignals[1].id = lastOp.id
    /\ "isNew" \notin DOMAIN recentSignals[10]

\* C2: a synthesized entry enters the buffer with isNew = TRUE; its flag is
\* FALSE only from ClearDelay after the insertion on; a flag that is FALSE
\* never turns TRUE again; the continuation that clears it is scheduled once,
\* at the insertion, and is gone once it has run.
C2_NewFlagOnce ==
    [][ /\ Synthesized(lastOp') =>
             /\ recentSignals'[1].id = lastOp'.id
             /\ recentSignals'[1].isNew = TRUE
             /\ recentSignals'[1].timestamp = now'
        /\ \A i \in 1..Len(recentSignals') :
             "isNew" \in DOMAIN recentSignals'[i] =>
                /\ recentSignals'[i].isNew = FALSE =>
                      now' >= recentSignals'[i].timestamp + ClearDelay
                /\ \A j \in 1..Len(recentSignals) :
                      /\ recentSignals[j].id = recentSignals'[i].id
                      /\ ~IsNew(recentSignals[j])
                      => ~IsNew(recentSignals'[i])
        /\ \A t \in timeouts' \ timeouts : Synthesized(lastOp') /\ t.id = lastOp'.id
        /\ lastOp'.op = "clear" => \A t \in timeouts' : t.id # lastOp'.id
      ]_vars

\* the continuation of an entry has run and the entry, still in the buffer,
\* shows isNew = FALSE
C2_Witness ==
    /\ lastOp.op = "clear"
    /\ \E i \in 1..Len(recentSignals) :
          /\ recentSignals[i].id = lastOp.id
          /\ recentSignals[i].isNew = FALSE
          /\ now >= recentSignals[i].timestamp + ClearDelay

\* C3: a clear-flag continuation whose entry is no longer in the buffer
\* leaves the buffer as it is, the other entries' isNew included.
C3_ClearOfAbsentEntry ==
    [][ lastOp'.op = "clear" /\ ~Present(lastOp'.id, recentSignals)
           => recentSignals' = recentSignals ]_vars

\* a continuation has run after a load replaced the buffer that held its entry
C3_Witness ==
    /\ lastOp.op = "clear"
    /\ ~Present(lastOp.id, recentSignals)
    /\ Len(recentSignals) > 0

\* C4: while monitoring is off no tick runs; turning monitoring off or on
\* cancels no scheduled clear-flag continuation, and such a continuation,
\* when it runs, clears the flag of its entry, monitoring on or off.
C4_PauseStopsTicksOnly ==
    [][ /\ ~isMonitoring => lastOp'.op # "tick"
        /\ lastOp'.op = "toggle" => timeouts' = timeouts
        /\ lastOp'.op = "clear" =>
              \A i \in 1..Len(recentSignals') :
                  recentSignals'[i].id = lastOp'.id => recentSignals'[i].isNew = FALSE
      ]_vars

\* monitoring is off and the continuation scheduled before the pause has
\* cleared the flag of its entry
C4_Witness ==
    /\ ~isMonitoring
    /\ lastOp.op = "clear"
    /\ \E i \in 1..Len(recentSignals) :
          recentSignals[i].id = lastOp.id /\ recentSignals[i].isNew = FALSE

\* C5: the load of the buffer from RecordSource is issued once, and never
\* again by a tick or by turning monitoring off or on.
C5_LoadIssuedOnce == loadsIssued = 1

\* C6: an entry that was prepended stays in the buffer, in the same order
\* relative to the other entries, until a prepend at full capacity evicts it
\* from the tail; no load completion, toggle or clear-flag continuation
\* removes or reorders entries.
C6_OnlyTailEviction ==
    [][ LET old == Ids(recentSignals)
            new == Ids(recentSignals')
            pos(id) == CHOOSE i \in 1..Len(new) : new[i] = id
        IN /\ \A j \in 1..Len(old) :
                 "isNew" \in DOMAIN recentSignals[j] /\ ~Present(old[j], recentSignals')
                    => Synthesized(lastOp') /\ Len(new) = 10 /\ j = Len(old)
           /\ \A j1, j2 \in 1..Len(old) :
                 /\ j1 < j2
                 /\ Present(old[j1], recentSignals')
                 /\ Present(old[j2], recentSignals')
                 => pos(old[j1]) < pos(old[j2])
      ]_vars

\* C11: when a RecordSource call of the live monitor's load rejects, the
\* status becomes disconnected with health critical, and the buffer and the
\* stats keep the values they had.
C11_FailedLoadKeepsFeed ==
    [][ lastOp'.op = "loadFailed" =>
          /\ systemStatus'.isConnected = FALSE
          /\ systemStatus'.systemHealth = "critical"
          /\ recentSignals' = recentSignals
          /\ stats' = stats
      ]_vars

\* a load has failed while the buffer held entries and the stats were not zero
C11_Witness ==
    /\ lastOp.op = "loadFailed"
    /\ ~systemStatus.isConnected
    /\ systemStatus.systemHealth = "critical"
    /\ Len(recentSignals) > 0
    /\ stats.highSeverity > 0

\* C20: turning monitoring on schedules one fresh interval, due a full period
\* later; an interval is pending exactly while monitoring is on; a tick runs
\* only when that interval is due, so never for a period that fell into the
\* pause, and never less than a period after the tick before it.
C20_FreshInterval ==
    [][ /\ lastOp'.op = "toggle" /\ isMonitoring' => nextTick' = now + TickPeriod
        /\ (nextTick' # NoTimer) <=> isMonitoring'
        /\ lastOp'.op = "tick" =>
              /\ isMonitoring
              /\ now >= nextTick
              /\ nextTick' = now + TickPeriod
              /\ lastTickAt # NoTimer => now - lastTickAt >= TickPeriod
      ]_vars

\* a tick has run after monitoring was turned off and on again
C20_Witness ==
    /\ lastOp.op = "tick"
    /\ lastTickAt = now
    /\ loadsIssued >= 3
    /\ isMonitoring

\* C22: a prepend and a clear-flag continuation are each applied to the
\* buffer the mutation before them left: the continuation of A keeps every
\* entry (an entry B prepended before it included) and changes nothing but
\* A's flag, which is FALSE afterwards; the prepend of B puts B at the head
\* and keeps the entries behind it as they were, a cleared flag included.
C22_MutationsNotLost ==
    [][ /\ lastOp'.op = "clear" =>
              /\ Len(recentSignals') = Len(recentSignals)
              /\ \A i \in 1..Len(recentSignals) :
                    IF recentSignals[i].id = lastOp'.id
                    THEN /\ recentSignals'[i].id = recentSignals[i].id
                         /\ recentSignals'[i].severity = recentSignals[i].severity
                         /\ recentSignals'[i].timestamp = recentSignals[i].timestamp
                         /\ recentSignals'[i].isNew = FALSE
                    ELSE recentSignals'[i] = recentSignals[i]
        /\ Synthesized(lastOp') =>
              /\ recentSignals'[1].id = lastOp'.id
              /\ \A i \in 1..Len(recentSignals) :
                    i <= 9 => /\ i + 1 <= Len(recentSignals')
                              /\ recentSignals'[i + 1] = recentSignals[i]
      ]_vars

\* entry B was prepended after the continuation of the earlier entry A had
\* run: B is in the buffer, with its flag, and A shows isNew = FALSE
C22_Witness ==
    /\ Synthesized(lastOp)
    /\ IsNew(recentSignals[1])
    /\ \E j \in 2..Len(recentSignals) :
          /\ "isNew" \in DOMAIN recentSignals[j]
          /\ recentSignals[j].isNew = FALSE
          /\ \A t \in timeouts : t.id # recentSignals[j].id

\* C24: in every reachable state a monitor that is marked disconnected has
\* health critical.
C24_DisconnectedIsCritical ==
    systemStatus.isConnected = FALSE => systemStatus.systemHealth = "critical"

\* C26: a tick sets the health to healthy or warning and lastUpdate to its
\* time; without a new signal it leaves the buffer and the stats alone; with
\* one it puts exactly that entry, isNew = TRUE, at the head, adds 1 to
\* totalToday, and 1 to highSeverity exactly when the entry is high.
C26_TickFrame ==
    [][ lastOp'.op = "tick" =>
          /\ systemStatus'.systemHealth \in {"healthy", "warning"}
          /\ systemStatus'.lastUpdate = now
          /\ systemStatus'.isConnected = systemStatus.isConnected
          /\ ~Synthesized(lastOp') => recentSignals' = recentSignals /\ stats' = stats
          /\ Synthesized(lastOp') =>
                /\ IsNew(recentSignals'[1])
                /\ ~Present(recentSignals'[1].id, recentSignals)
                /\ Tail(recentSignals') = SubSeq(recentSignals, 1, Len(recentSignals') - 1)
                /\ Len(recentSignals') - 1 \in {Len(recentSignals), 9}
                /\ stats'.totalToday = stats.totalToday + 1
                /\ stats'.highSeverity - stats.highSeverity =
                      (IF recentSignals'[1].severity = "high" THEN 1 ELSE 0)
                /\ stats'.activeEvents = stats.activeEvents
      ]_vars

\* a tick has synthesized a signal that is not high, after the stats were loaded
C26_Witness ==
    /\ Synthesized(lastOp)
    /\ recentSignals[1].severity = "low"
    /\ Len(recentSignals) > 1
    /\ stats.highSeverity > 0
    /\ stats.totalToday > 1

\* C27: in every reachable state the timestamps of the buffer do not
\* increase from head to tail.
C27_MostRecentFirst ==
    \A i \in 1..(Len(recentSignals) - 1) :
        recentSignals[i].timestamp >= recentSignals[i + 1].timestamp

\* loaded entries of several timestamps behind a synthesized one
C27_Witness ==
    /\ Len(recentSignals) = 10
    /\ "isNew" \in DOMAIN recentSignals[1]
    /\ "isNew" \notin DOMAIN recentSignals[2]
    /\ recentSignals[2].timestamp > recentSignals[10].timestamp

\* C30: no step of the live monitor changes isConnected from FALSE to TRUE.
C30_NeverReconnects ==
    [][ systemStatus.isConnected = FALSE => systemStatus'.isConnected = FALSE ]_vars

\* a load has succeeded after an earlier one had failed: the buffer is
\* filled and the monitor still shows disconnected
C30_Witness ==
    /\ lastOp.op = "load"
    /\ Len(recentSignals) > 0
    /\ systemStatus.isConnected = FALSE

----------------------------------------------------------------------------
(* Properties of the notification feed *)

\* the place of a notification in the merge: alerts, then events, then system
\* notices, each kind in the order of its source
KindRank(type) == IF type = "alert" THEN 1 ELSE IF type = "event" THEN 2 ELSE 3

MergedBefore(a, b) ==
    \/ KindRank(a.type) < KindRank(b.type)
    \/ KindRank(a.type) = KindRank(b.type) /\ a.id[2] < b.id[2]

InFeed(id) == \E i \in 1..Len(notifications) : notifications[i].id = id

\* the candidates of the last merge that the truncation dropped
Dropped == {k \in 1..Len(lastMerged) : ~InFeed(lastMerged[k].id)}

\* C7: the feed has at most 20 entries, in order of non-increasing timestamp,
\* equal timestamps in merge order (alerts, active events, system notices);
\* every retained notification is at least as recent as every dropped one.
C7_FeedNewestTwenty ==
    /\ Len(notifications) <= 20
    /\ Len(notifications) = Min(20, Len(lastMerged))
    /\ \A i, j \in 1..Len(notifications) :
          i < j =>
             /\ notifications[i].timestamp >= notifications[j].timestamp
             /\ notifications[i].timestamp = notifications[j].timestamp
                   => MergedBefore(notifications[i], notifications[j])
    /\ \A i \in 1..Len(notifications), k \in Dropped :
          notifications[i].timestamp >= lastMerged[k].timestamp

\* a merge of more than 20 candidates, truncated to 20, in which an alert and
\* an event share a timestamp
C7_Witness ==
    /\ Len(lastMerged) > 20
    /\ Len(notifications) = 20
    /\ Dropped # {}
    /\ \E i, j \in 1..Len(notifications) :
          /\ notifications[i].type = "alert"
          /\ notifications[j].type = "event"
          /\ notifications[i].timestamp = notifications[j].timestamp

\* C8: after markAllRead every notification is read and the unread count is
\* 0; markRead(id) or markAllRead run a second time leaves the notifications
\* as the first run left them.
C8_MarkReadIdempotent ==
    [][ /\ lastOp'.op = "markAll" =>
             /\ \A i \in 1..Len(notifications') : notifications'[i].read
             /\ UnreadCount(notifications') = 0
        /\ lastOp'.op \in {"mark", "markAll"} /\ lastOp'.repeat =>
             notifications' = notifications
      ]_vars

\* markAllRead has run twice in a row on a feed that is not empty
C8_Witness ==
    /\ lastOp.op = "markAll"
    /\ lastOp.repeat
    /\ Len(notifications) > 0
    /\ UnreadCount(notifications) = 0

\* C9: markRead(id) sets the read flag of the notification with that id and
\* changes nothing else: not the ids or their order, not another
\* notification's flag, no other field, nor the rest of the state; with an id
\* the feed does not hold the state stays as it is.
C9_MarkReadFrame ==
    [][ lastOp'.op = "mark" =>
          /\ Len(notifications') = Len(notifications)
          /\ \A i \in 1..Len(notifications) :
                /\ DOMAIN notifications'[i] = DOMAIN notifications[i]
                /\ \A f \in DOMAIN notifications[i] \ {"read"} :
                      notifications'[i][f] = notifications[i][f]
                /\ notifications'[i].read =
                      (notifications[i].read \/ notifications[i].id = lastOp'.id)
          /\ ~InFeed(lastOp'.id) => notifications' = notifications
          /\ UNCHANGED <<isOpen, filter, isLoading, notifLoads>>
      ]_vars

\* markRead has marked a notification of the feed while another stays unread
C9_Witness ==
    /\ lastOp.op = "mark"
    /\ \E i, j \in 1..Len(notifications) :
          /\ notifications[i].id = lastOp.id
          /\ notifications[i].read
          /\ ~notifications[j].read

\* C10, as claimed: the unread count is the number of unread notifications of
\* the full merged set, before its truncation to 20.
C10_UnreadOfFullMerge ==
    UnreadCount(notifications) =
        Cardinality({k \in 1..Len(lastMerged) : lastMerged[k].id \notin readIds})

\* C10, amended: the unread count is the number of unread notifications
\* among the 20 most recent of the merged set, the ones the feed retains.
C10_UnreadOfRetained ==
    UnreadCount(notifications) =
        Cardinality({k \in 1..Min(20, Len(lastMerged)) : lastMerged[k].id \notin readIds})

\* more than 20 candidates were merged and some, not all, of the retained
\* ones have been marked read since
C10_Witness ==
    /\ Len(lastMerged) > 20
    /\ readIds # {}
    /\ UnreadCount(notifications) > 0
    /\ UnreadCount(notifications) < Len(notifications)

\* C21: a notification that is read stays read: no step leads from a feed
\* that shows an id as read to a feed that shows the same id as unread, a
\* merge that yields the id again included.
C21_ReadSurvivesMerge ==
    [][ \A i \in 1..Len(notifications), j \in 1..Len(notifications') :
           notifications[i].read /\ notifications'[j].id = notifications[i].id
              => notifications'[j].read ]_vars

\* C28: right after a merge the feed holds a notification for an event only
\* if the event is active; every id is the kind and the id of the source
\* record; no two notifications share an id; every notification is unread;
\* the system notice has no actionUrl.
C28_FreshMerge ==
    lastOp.op = "merge" =>
        /\ \A i \in 1..Len(notifications) :
              LET n == notifications[i]
              IN /\ n.type \in {"alert", "event", "system"}
                 /\ Len(n.id) = 2
                 /\ n.id[1] = n.type
                 /\ n.type = "alert" => n.title = AlertRecord(n.id[2]).title
                 /\ n.type = "event" =>
                       /\ n.title = EventRecord(n.id[2]).title
                       /\ EventRecord(n.id[2]).status = "active"
                 /\ n.type = "system" => "actionUrl" \notin DOMAIN n
                 /\ n.read = FALSE
        /\ \A i, j \in 1..Len(notifications) :
              notifications[i].id = notifications[j].id => i = j

\* a merge of alerts, of events some of which are resolved, and of the
\* system notice has just filled the feed
C28_Witness ==
    /\ lastOp.op = "merge"
    /\ Len(notifications) = 20
    /\ \A kind \in {"alert", "event", "system"} :
          \E i \in 1..Len(notifications) : notifications[i].type = kind

----------------------------------------------------------------------------
(* Properties of the analytics page *)

\* the views on the page, once a refresh has stored some
Shown == analyticsData.kind = "data"

\* the signals and events the views on the page were computed from
InputSignals == lastInput.signals
InputEvents == lastInput.events

\* s[1] + ... + s[n]
RECURSIVE SumTo(_, _)
SumTo(s, n) == IF n = 0 THEN 0 ELSE s[n] + SumTo(s, n - 1)

\* C12: a refresh that fails leaves the six views exactly as the last
\* successful refresh stored them (or absent, when there was none), and
\* puts the loading flag back to false.
C12_FailedRefreshKeepsViews ==
    [][ lastOp'.op = "refreshFailed" =>
          /\ analyticsData' = analyticsData
          /\ lastInput.kind = "none" => analyticsData' = NoAnalytics
          /\ lastInput.kind = "input" =>
                \E anomaly \in AnomalyScores :
                   analyticsData' = Analyze(lastInput.signals, lastInput.events,
                                            lastInput.range, zone, lastInput.at, anomaly)
          /\ aLoading' = FALSE ]_vars

\* a refresh failed while the page showed the views of an earlier one
C12_Witness ==
    /\ lastOp.op = "refreshFailed"
    /\ Shown
    /\ Len(analyticsData.locationHotspots) > 0
    /\ ~aLoading

\* C13: after a refresh has failed, the state the presentation layer sees
\* differs from the state in which the refresh was issued.
C13_FailureChangesStatus ==
    lastOp.op = "refreshFailed" =>
        <<analyticsData, aLoading>> # <<failedFrom.data, failedFrom.loading>>

\* the calendar days (UTC) of the window that ends on the day of instant t
WindowDays(range, t) == (UtcDay(t) - DaysOf(range) + 1)..UtcDay(t)

\* C14: the trend has 1, 7 or 30 buckets for 1d, 7d, 30d, from the oldest
\* day to the newest, and the buckets' totals add up to the number of
\* signals created on a day of the window.
C14_TrendBuckets ==
    Shown =>
        LET trends == analyticsData.signalTrends
        IN /\ Len(trends) = (CASE lastInput.range = "1d" -> 1
                               [] lastInput.range = "7d" -> 7
                               [] lastInput.range = "30d" -> 30)
           /\ \A k \in 1..(Len(trends) - 1) : trends[k].date < trends[k + 1].date
           /\ SumTo([k \in 1..Len(trends) |-> trends[k].signals], Len(trends))
                 = Cardinality({j \in 1..Len(InputSignals) :
                                  UtcDay(InputSignals[j].created_at)
                                     \in WindowDays(lastInput.range, lastInput.at)})

\* C15: at most 10 hotspots, counts non-increasing along the list, and the
\* tier is high above 10, medium from 6 to 10, low up to 5.
C15_HotspotRanking ==
    Shown =>
        LET hot == analyticsData.locationHotspots
        IN /\ Len(hot) <= 10
           /\ \A k \in 1..(Len(hot) - 1) : hot[k].count >= hot[k + 1].count
           /\ \A k \in 1..Len(hot) :
                 /\ hot[k].risk = "high" <=> hot[k].count > 10
                 /\ hot[k].risk = "medium" <=> (5 < hot[k].count /\ hot[k].count <= 10)
                 /\ hot[k].risk = "low" <=> hot[k].count <= 5

\* more regions than the list holds, with counts 5, 6, 10 and 11 among them
C15_Witness ==
    /\ Shown
    /\ Len(locationCounts(InputSignals)) > 10
    /\ Len(analyticsData.locationHotspots) = 10
    /\ \A c \in {5, 6, 10, 11} :
          \E k \in 1..10 : analyticsData.locationHotspots[k].count = c

\* x is a number from 0 to 100
InRange(x) == x.kind = "num" /\ 0 <= x.num /\ x.num <= 100 * x.den

\* C16: every risk factor is a number from 0 to 100, and with no signal and
\* no event the first four factors are 0.
C16_RiskFactorsInRange ==
    Shown =>
        LET risk == analyticsData.riskAssessment
        IN /\ \A k \in 1..Len(risk) : InRange(risk[k].value)
           /\ (Len(InputSignals) = 0 /\ Len(InputEvents) = 0) =>
                 \A k \in 1..4 : risk[k].value.kind = "num" /\ risk[k].value.num = 0

\* C17: with no signal there are 24 time-pattern buckets, each normalized 0.
C17_EmptyPatternsAreZero ==
    (Shown /\ Len(InputSignals) = 0) =>
        LET pat == analyticsData.timePatterns
        IN /\ Len(pat) = 24
           /\ \A k \in 1..Len(pat) :
                 pat[k].normalized.kind = "num" /\ pat[k].normalized.num = 0

\* C18: with at least one signal there are 24 buckets for the hours 0..23,
\* their counts add up to the number of signals, the busiest bucket is
\* normalized to 100, and every bucket to count / max * 100, within 0..100.
C18_PatternsNormalized ==
    (Shown /\ Len(InputSignals) >= 1) =>
        LET pat == analyticsData.timePatterns
            count == [k \in 1..Len(pat) |-> pat[k].signals]
            busiest == {k \in 1..Len(pat) : \A j \in 1..Len(pat) : count[j] <= count[k]}
        IN /\ Len(pat) = 24
           /\ \A k \in 1..Len(pat) : pat[k].hour = k - 1
           /\ SumTo(count, Len(pat)) = Len(InputSignals)
           /\ busiest # {}
           /\ \A k \in 1..Len(pat), b \in busiest :
                 /\ InRange(pat[k].normalized)
                 /\ pat[k].normalized.num * count[b] = 100 * count[k] * pat[k].normalized.den
                 /\ k \in busiest => pat[k].normalized.num = 100 * pat[k].normalized.den

\* many signals: some hour is busier than another hour that has signals
C18_Witness ==
    /\ Shown
    /\ Len(InputSignals) > FewSignals
    /\ \E j, k \in 1..HoursPerDay :
          /\ 0 < analyticsData.timePatterns[j].signals
          /\ analyticsData.timePatterns[j].signals < analyticsData.timePatterns[k].signals

\* C19: a type's percentage is count / total * 100 rounded to the nearest
\* integer, types come by non-increasing count, the percentages add up to
\* 100 give or take half a point per type, and no signal gives no type.
C19_TypePercentages ==
    Shown =>
        LET types == analyticsData.typeBreakdown
            total == Len(InputSignals)
            pct == [k \in 1..Len(types) |-> types[k].percentage.num]
            off == SumTo(pct, Len(types)) - 100
        IN /\ \A k \in 1..Len(types) :
                 /\ types[k].percentage.kind = "num"
                 /\ types[k].percentage.den = 1
                 /\ 2 * total * pct[k] <= 200 * types[k].count + total
                 /\ 200 * types[k].count + total < 2 * total * (pct[k] + 1)
           /\ \A k \in 1..(Len(types) - 1) : types[k].count >= types[k + 1].count
           /\ total > 0 => (2 * off <= Len(types) /\ -2 * off <= Len(types))
           /\ total = 0 => types = <<>>

\* four types, one of them with a percentage that had to be rounded up
C19_Witness ==
    /\ Shown
    /\ Len(analyticsData.typeBreakdown) = Len(SignalTypes)
    /\ \E k \in 1..Len(analyticsData.typeBreakdown) :
          LET t == analyticsData.typeBreakdown[k]
          IN t.percentage.num * Len(InputSignals) > 100 * t.count

\* the primary region of a signal
Region(signal) == Head(signal.location)

\* the place of the first of the signals that lies in region r
FirstSeenAt(signals, r) ==
    CHOOSE i \in 1..Len(signals) :
        Region(signals[i]) = r /\ \A j \in 1..(i - 1) : Region(signals[j]) # r

\* C29: a hotspot stands for a primary region (the first segment of
\* location) and counts the signals of that region; the list holds the 10
\* regions with the most signals, or all regions when there are fewer than
\* 10, by non-increasing count, regions of equal count in the order in which
\* they first occur; two Mumbai signals and one Delhi signal give
\* [Mumbai:2:low, Delhi:1:low].
C29_HotspotGroups ==
    /\ locationHotspots(<< [location |-> <<"Delhi", "Central">>],
                           [location |-> <<"Mumbai", "Andheri">>],
                           [location |-> <<"Mumbai", "Bandra">>] >>)
          = << [location |-> "Mumbai", count |-> 2, risk |-> "low"],
               [location |-> "Delhi", count |-> 1, risk |-> "low"] >>
    /\ Shown =>
          LET hot == analyticsData.locationHotspots
              regions == {Region(InputSignals[i]) : i \in 1..Len(InputSignals)}
              kept == {hot[k].location : k \in 1..Len(hot)}
              size(r) == Cardinality({i \in 1..Len(InputSignals) : Region(InputSignals[i]) = r})
          IN /\ kept \subseteq regions
             /\ Len(hot) = Min(10, Cardinality(regions))
             /\ Cardinality(kept) = Len(hot)
             /\ \A k \in 1..Len(hot) : hot[k].count = size(hot[k].location)
             /\ \A r \in regions \ kept, k \in 1..Len(hot) : size(r) <= hot[k].count
             /\ \A k, l \in 1..Len(hot) :
                   k < l =>
                      /\ hot[k].count >= hot[l].count
                      /\ hot[k].count = hot[l].count =>
                            FirstSeenAt(InputSignals, hot[k].location)
                               < FirstSeenAt(InputSignals, hot[l].location)

\* eleven regions, several of them with one signal each, in two districts:
\* one region is left out, and regions of equal count are listed
C29_Witness ==
    /\ Shown
    /\ Cardinality({Region(InputSignals[i]) : i \in 1..Len(InputSignals)}) > 10
    /\ Cardinality({InputSignals[i].location : i \in 1..Len(InputSignals)}) > 11
    /\ analyticsData.locationHotspots[9].count = analyticsData.locationHotspots[10].count

----------------------------------------------------------------------------
(* Properties of all three components *)

\* the handler runs that end a refresh, on either branch
RefreshEnds == {"load", "loadFailed", "merge", "mergeFailed", "refreshed", "refreshFailed"}

\* C25: the calls of one refresh are joined: when at least one of them
\* failed, the refresh that ends leaves every derived view as it was (the
\* signal buffer and the stats, the notification list, the analytics views),
\* so that no view is computed from the data of one call and an empty list in
\* place of the call that failed.
C25_JoinAll ==
    [][ lastOp'.op \in RefreshEnds /\ lastOp'.id # <<>> =>
           UNCHANGED <<recentSignals, stats, notifications, lastMerged, analyticsData, lastInput>> ]_vars

\* a refresh of the analytics page ended with getEvents() failed and
\* getSignals() answered, while views of an earlier refresh are shown
C25_Witness ==
    /\ lastOp.op = "refreshFailed"
    /\ lastOp.id = <<"events">>
    /\ Shown
    /\ InputSignals # <<>>

\* C31: in the notification panel and on the analytics page the loading
\* flag is true while at least one refresh is in flight, also when two
\* refreshes overlap and the first of them has completed; and when a refresh
\* completes, with or without success, and none is left in flight, the flag
\* is false.
C31_LoadingWhileInFlight ==
    /\ notifLoads > 0 => isLoading
    /\ aLoads # <<>> => aLoading
    /\ lastOp.op \in {"merge", "mergeFailed"} /\ notifLoads = 0 => ~isLoading
    /\ lastOp.op \in {"refreshed", "refreshFailed"} /\ aLoads = <<>> => ~aLoading

====
